---- MODULE Spec2Model ----
(***************************************************************************)
(* WgpuApp::new of src/lib.rs: the GPU-context acquisition protocol.       *)
(* A canvas is created and attached, the WebGPU backend is negotiated      *)
(* (surface, adapter, device); when that fails the canvas is removed, a    *)
(* second canvas is created and the WebGL backend is negotiated.           *)
(*                                                                         *)
(* The browser (DOM calls, wgpu's platform requests) is the environment:   *)
(* every Result or Option the code matches on is an environment choice.    *)
(***************************************************************************)
EXTENDS Integers, Sequences, FiniteSets, TLC

\* ---------------------------------------------------------------- bounds
\* Nodes the parent element may already hold when new is called.
MaxExisting == 1
\* An adapter's limit for key k ranges over baseline[k] * s / 2, s in 1..MaxScale:
\* below the WebGL2 baseline, at it, and above it.
MaxScale == 3

\* ------------------------------------------------------------- vocabulary
BROWSER_WEBGPU == "BROWSER_WEBGPU"
GL == "GL"
Backends == {BROWSER_WEBGPU, GL}

None == [tag |-> "None"]

\* Texts of the errors the platform reports (CreateSurfaceError,
\* RequestDeviceError); the platform picks them, the code only forwards them.
PlatformDiagnostics == {"platform diagnostic A", "platform diagnostic B"}

Range(s) == {s[i] : i \in 1..Len(s)}

\* --------------------------------------------------------------- limits
ResolutionKeys ==
    {"max_texture_dimension_1d", "max_texture_dimension_2d", "max_texture_dimension_3d"}

LimitKeys ==
    ResolutionKeys \cup {"max_bind_groups", "max_inter_stage_shader_components"}

\* Limits::downlevel_webgl2_defaults(), on the keys of LimitKeys.
downlevel_webgl2_defaults ==
    [max_texture_dimension_1d |-> 2048,
     max_texture_dimension_2d |-> 2048,
     max_texture_dimension_3d |-> 256,
     max_bind_groups |-> 4,
     max_inter_stage_shader_components |-> 31]

\* Mutation of using_resolution: the adapter's limits are not consulted.
using_resolution_keep_self(self, other) == self

\* Limits::using_resolution(self, other): the three texture dimensions are
\* taken from other, every other limit is kept from self.
using_resolution(self, other) ==
    [k \in LimitKeys |-> IF k \in ResolutionKeys THEN other[k] ELSE self[k]]

\* The values adapter.limits() may report for key k.
LimitValues(k) == {(downlevel_webgl2_defaults[k] * s) \div 2 : s \in 1..MaxScale}

\* adapter.limits(): whatever the selected adapter reports.
AdapterLimits ==
    [max_texture_dimension_1d : LimitValues("max_texture_dimension_1d"),
     max_texture_dimension_2d : LimitValues("max_texture_dimension_2d"),
     max_texture_dimension_3d : LimitValues("max_texture_dimension_3d"),
     max_bind_groups : LimitValues("max_bind_groups"),
     max_inter_stage_shader_components : LimitValues("max_inter_stage_shader_components")]

\* ------------------------------------------------------------------ state
VARIABLES
    pc,         \* position of new (and of the backend function it awaits)
    children,   \* parent_element's child nodes, in insertion order
    nextNode,   \* identity of the next node create_element returns
    canvas,     \* new's two canvas bindings: backend -> node (0: not bound)
    locals,     \* the live handles of each backend function's frame
    inflight,   \* asynchronous platform requests not yet resolved
    console,    \* what console::error_1 / console::log_1 have written
    returned,   \* what each backend function returned to new
    result,     \* what new returned
    events      \* history: the platform calls made, in order

vars == <<pc, children, nextNode, canvas, locals, inflight, console, returned, result, events>>

\* ---------------------------------------------------------------- handles
NoLocals ==
    [instance |-> None, surface |-> None, adapter |-> None, device |-> None, queue |-> None]

\* lines 48-53: the InstanceDescriptor of with_webgpu_backend
WebGpuInstanceDescriptor ==
    [backends |-> BROWSER_WEBGPU, flags |-> {}, dx12_shader_compiler |-> "Fxc",
     gles_minor_version |-> "default"]

\* Mutation of WebGlInstanceDescriptor: the backends of the other backend function.
WebGlInstanceDescriptorCopyPaste ==
    [backends |-> BROWSER_WEBGPU, flags |-> {}, dx12_shader_compiler |-> "Fxc",
     gles_minor_version |-> "default"]

\* lines 107-112: the InstanceDescriptor of with_webgl_backend
WebGlInstanceDescriptor ==
    [backends |-> GL, flags |-> {}, dx12_shader_compiler |-> "Fxc",
     gles_minor_version |-> "default"]

\* wgpu::Instance::new(instance_desc)
Instance(instance_desc) == [tag |-> "Instance", backends |-> instance_desc.backends]

\* instance.create_surface(SurfaceTarget::Canvas(canvas))
Surface(instance, target) == [tag |-> "Surface", instance |-> instance, target |-> target]

\* RequestAdapterOptions { compatible_surface: Some(&surface), .. }
RequestAdapterOptions(surface) ==
    [power_preference |-> "default", compatible_surface |-> surface,
     force_fallback_adapter |-> FALSE]

\* the adapter instance.request_adapter(&options) resolves to
Adapter(instance, options, limits) ==
    [tag |-> "Adapter", instance |-> instance,
     compatible_surface |-> options.compatible_surface, limits |-> limits]

\* DeviceDescriptor { required_limits: downlevel_webgl2_defaults().using_resolution(adapter.limits()), .. }
DeviceDescriptor(adapter) ==
    [required_features |-> {},
     required_limits |-> using_resolution(downlevel_webgl2_defaults, adapter.limits),
     memory_hints |-> "MemoryUsage"]

\* the (device, queue) pair adapter.request_device(&descriptor, None) resolves to
Device(adapter, descriptor) ==
    [tag |-> "Device", adapter |-> adapter, limits |-> descriptor.required_limits]

Queue(adapter, descriptor) ==
    [tag |-> "Queue", adapter |-> adapter, limits |-> descriptor.required_limits]

\* ----------------------------------------------------------------- errors
\* Box<dyn Error> values: the wgpu error types and the &str error.
CreateSurfaceError(text) == [kind |-> "CreateSurfaceError", text |-> text]
RequestDeviceError(text) == [kind |-> "RequestDeviceError", text |-> text]
StrError(text) == [kind |-> "StrError", text |-> text]

\* e.to_string(): the Display text; the error's type is not part of it.
to_string(e) == e.text

\* Mutation of NoAdapterWebGpu: the message of the other backend function.
NoAdapterWebGpuCopyPaste == "No suitable adapter found for WebGL backend"
NoAdapterWebGpu == "No suitable adapter found for WebGPU backend"
\* Mutation of NoAdapterWebGl: the message of the other backend function.
NoAdapterWebGlCopyPaste == "No suitable adapter found for WebGPU backend"
NoAdapterWebGl == "No suitable adapter found for WebGL backend"

Ok(v) == [tag |-> "Ok", value |-> v]
Err(e) == [tag |-> "Err", error |-> e]
NotReturned == [tag |-> "NotReturned"]

\* JsValue::from_str(s)
JsString(s) == [js |-> "string", value |-> s]
\* the JsValue a failed DOM call propagates through `?`
JsDomError(op, node) == [js |-> "exception", op |-> op, node |-> node]

\* Mutation of append_child: the node is never attached.
append_child_noop(nodes, node) == nodes

\* parent_element.append_child(&node): node becomes the last child
append_child(nodes, node) == Append(SelectSeq(nodes, LAMBDA n : n # node), node)

\* Mutation of remove_child: the node stays attached.
remove_child_noop(nodes, node) == nodes

\* parent_element.remove_child(&node): node is no longer a child
remove_child(nodes, node) == SelectSeq(nodes, LAMBDA n : n # node)

\* Mutation of error_1: the event is written without the reason.
error_1_no_reason(msg) == [level |-> "error", msg |-> "error"]

\* console::error_1(&msg) / console::log_1(&msg): the event written
error_1(msg) == [level |-> "error", msg |-> msg]
log_1(msg) == [level |-> "log", msg |-> msg]

\* ------------------------------------------------------------------- Init
Init ==
    /\ pc = "create_canvas"
    /\ \E n \in 0..MaxExisting :
          /\ children = [i \in 1..n |-> i]
          /\ nextNode = n + 1
    /\ canvas = [b \in Backends |-> 0]
    /\ locals = [b \in Backends |-> NoLocals]
    /\ inflight = {}
    /\ console = <<>>
    /\ returned = [b \in Backends |-> NotReturned]
    /\ result = NotReturned
    /\ events = <<>>

\* ------------------------------------------------- new: the two match arms
\* Mutation of NewAfterWebGpu: the Ok arm does not return.
NewAfterWebGpuFallThrough(r) == [pc |-> "remove_child", result |-> NotReturned]

\* Mutation of NewAfterWebGpu: the Err arm awaits the failed attempt again.
NewAfterWebGpuHang(r) ==
    IF r.tag = "Ok"
    THEN [pc |-> "done", result |-> Ok(r.value)]
    ELSE [pc |-> "webgpu_await_adapter", result |-> NotReturned]

\* lines 29-32: match Self::with_webgpu_backend(canvas.clone()).await
\*   Ok(app) => return Ok(app),  Err(_) => ()  (continue at remove_child)
NewAfterWebGpu(r) ==
    IF r.tag = "Ok"
    THEN [pc |-> "done", result |-> Ok(r.value)]
    ELSE [pc |-> "remove_child", result |-> NotReturned]

\* Mutation of NewAfterWebGl: a failed WebGL attempt is started over.
NewAfterWebGlRetry(r) ==
    IF r.tag = "Ok"
    THEN [pc |-> "done", result |-> Ok(r.value)]
    ELSE [pc |-> "webgl_create_surface", result |-> NotReturned]

\* lines 41-44: match Self::with_webgl_backend(canvas).await
\*   Ok(app) => return Ok(app),  Err(e) => return Err(JsValue::from_str(&e.to_string()))
NewAfterWebGl(r) ==
    IF r.tag = "Ok"
    THEN [pc |-> "done", result |-> Ok(r.value)]
    ELSE [pc |-> "done", result |-> Err(JsString(to_string(r.error)))]

\* line 29: the canvas handed to with_webgpu_backend (canvas.clone(), first binding)
WebGpuTarget(cv) == cv[BROWSER_WEBGPU]

\* Mutation of WebGlTarget: the first canvas is handed over again.
WebGlTargetStale(cv) == cv[BROWSER_WEBGPU]

\* line 41: the canvas handed to with_webgl_backend (the second binding, which
\* shadows the first)
WebGlTarget(cv) == cv[GL]

\* Mutation of FrameAfterReturn: the handles outlive the call.
FrameLeaked(frame) == frame

\* A backend function's frame once it has returned: its locals are dropped
\* (on Err) or moved into Self (on Ok).
FrameAfterReturn(frame) == NoLocals

\* lines 97-103 / 156-162: Ok(Self { instance, surface: Box::new(surface), adapter, device, queue })
WebGpuApp(frames) ==
    [instance |-> frames[BROWSER_WEBGPU].instance,
     surface |-> frames[BROWSER_WEBGPU].surface,
     adapter |-> frames[BROWSER_WEBGPU].adapter,
     device |-> frames[BROWSER_WEBGPU].device,
     queue |-> frames[BROWSER_WEBGPU].queue]

\* Mutation of WebGlApp: the adapter is taken from the other attempt's frame.
WebGlAppStaleAdapter(frames) ==
    [instance |-> frames[GL].instance,
     surface |-> frames[GL].surface,
     adapter |-> frames[BROWSER_WEBGPU].adapter,
     device |-> frames[GL].device,
     queue |-> frames[GL].queue]

WebGlApp(frames) ==
    [instance |-> frames[GL].instance,
     surface |-> frames[GL].surface,
     adapter |-> frames[GL].adapter,
     device |-> frames[GL].device,
     queue |-> frames[GL].queue]

\* Mutation of DomFailure: the error is kept but new goes on to the WebGL attempt.
DomFailureContinues(op, node) ==
    /\ result' = Err(JsDomError(op, node))
    /\ pc' = "webgl_create_surface"

\* the `?` of a failed DOM call: new returns the JsValue at once
DomFailure(op, node) ==
    /\ result' = Err(JsDomError(op, node))
    /\ pc' = "done"

\* with_webgpu_backend returns r to new's match (line 29)
WebGpuReturns(r) ==
    /\ locals' = [locals EXCEPT ![BROWSER_WEBGPU] = FrameAfterReturn(@)]
    /\ returned' = [returned EXCEPT ![BROWSER_WEBGPU] = r]
    /\ pc' = NewAfterWebGpu(r).pc
    /\ result' = NewAfterWebGpu(r).result

\* with_webgl_backend returns r to new's match (line 41)
WebGlReturns(r) ==
    /\ locals' = [locals EXCEPT ![GL] = FrameAfterReturn(@)]
    /\ returned' = [returned EXCEPT ![GL] = r]
    /\ pc' = NewAfterWebGl(r).pc
    /\ result' = NewAfterWebGl(r).result

\* --------------------------------------------------- new: the first canvas
\* lines 24-26: document.create_element("canvas")?.dyn_into::<HtmlCanvasElement>()?
CreateCanvas ==
    /\ pc = "create_canvas"
    /\ \/ /\ DomFailure("create_element", 0)
          /\ UNCHANGED <<nextNode, canvas>>
       \/ /\ DomFailure("dyn_into", nextNode)
          /\ nextNode' = nextNode + 1
          /\ UNCHANGED canvas
       \/ /\ canvas' = [canvas EXCEPT ![BROWSER_WEBGPU] = nextNode]
          /\ nextNode' = nextNode + 1
          /\ pc' = "append_child"
          /\ UNCHANGED result
    /\ UNCHANGED <<children, locals, inflight, console, returned, events>>

\* line 27: parent_element.append_child(&canvas)?
AppendCanvas ==
    /\ pc = "append_child"
    /\ \/ /\ DomFailure("append_child", canvas[BROWSER_WEBGPU])
          /\ UNCHANGED children
       \/ /\ children' = append_child(children, canvas[BROWSER_WEBGPU])
          /\ pc' = "webgpu_create_surface"
          /\ UNCHANGED result
    /\ UNCHANGED <<nextNode, canvas, locals, inflight, console, returned, events>>

\* ------------------------------------------------------ with_webgpu_backend
\* lines 48-64: Instance::new, then instance.create_surface(SurfaceTarget::Canvas(canvas))
WebGpuCreateSurface ==
    /\ pc = "webgpu_create_surface"
    /\ LET instance == Instance(WebGpuInstanceDescriptor)
           target == WebGpuTarget(canvas)
       IN /\ events' = Append(events,
                 [op |-> "create_surface", backend |-> BROWSER_WEBGPU, target |-> target,
                  attached |-> target \in Range(children)])
          /\ \/ /\ locals' = [locals EXCEPT ![BROWSER_WEBGPU] =
                       [NoLocals EXCEPT !.instance = instance,
                                        !.surface = Surface(instance, target)]]
                /\ pc' = "webgpu_request_adapter"
                /\ UNCHANGED <<console, returned, result>>
             \/ \E text \in PlatformDiagnostics :
                   LET e == CreateSurfaceError(text)
                   IN /\ console' = Append(console, error_1(to_string(e)))
                      /\ WebGpuReturns(Err(e))
    /\ UNCHANGED <<children, nextNode, canvas, inflight>>

\* lines 66-72: instance.request_adapter(&request_adapter_options) is issued
WebGpuRequestAdapter ==
    /\ pc = "webgpu_request_adapter"
    /\ inflight' = inflight \cup
          {[request |-> "request_adapter", backend |-> BROWSER_WEBGPU,
            options |-> RequestAdapterOptions(locals[BROWSER_WEBGPU].surface)]}
    /\ events' = Append(events, [op |-> "request_adapter", backend |-> BROWSER_WEBGPU])
    /\ pc' = "webgpu_await_adapter"
    /\ UNCHANGED <<children, nextNode, canvas, locals, console, returned, result>>

\* lines 72-78: the .await resolves to Some(adapter) or None
WebGpuAdapterResolved ==
    /\ pc = "webgpu_await_adapter"
    /\ \E req \in inflight :
          /\ req.request = "request_adapter"
          /\ req.backend = BROWSER_WEBGPU
          /\ inflight' = inflight \ {req}
          /\ \/ \E limits \in AdapterLimits :
                   /\ locals' = [locals EXCEPT ![BROWSER_WEBGPU].adapter =
                          Adapter(locals[BROWSER_WEBGPU].instance, req.options, limits)]
                   /\ pc' = "webgpu_request_device"
                   /\ UNCHANGED <<console, returned, result>>
             \/ /\ console' = Append(console, error_1(NoAdapterWebGpu))
                /\ WebGpuReturns(Err(StrError(NoAdapterWebGpu)))
    /\ UNCHANGED <<children, nextNode, canvas, events>>

\* lines 80-87: the DeviceDescriptor is built and adapter.request_device is issued
WebGpuRequestDevice ==
    /\ pc = "webgpu_request_device"
    /\ inflight' = inflight \cup
          {[request |-> "request_device", backend |-> BROWSER_WEBGPU,
            descriptor |-> DeviceDescriptor(locals[BROWSER_WEBGPU].adapter)]}
    /\ events' = Append(events, [op |-> "request_device", backend |-> BROWSER_WEBGPU])
    /\ pc' = "webgpu_await_device"
    /\ UNCHANGED <<children, nextNode, canvas, locals, console, returned, result>>

\* lines 87-103: the .await resolves to Ok((device, queue)) or Err(e)
WebGpuDeviceResolved ==
    /\ pc = "webgpu_await_device"
    /\ \E req \in inflight :
          /\ req.request = "request_device"
          /\ req.backend = BROWSER_WEBGPU
          /\ inflight' = inflight \ {req}
          /\ \/ LET adapter == locals[BROWSER_WEBGPU].adapter
                    frames == [locals EXCEPT
                                 ![BROWSER_WEBGPU].device = Device(adapter, req.descriptor),
                                 ![BROWSER_WEBGPU].queue = Queue(adapter, req.descriptor)]
                IN /\ console' = Append(console, log_1("WebGPU backend initialized"))
                   /\ WebGpuReturns(Ok(WebGpuApp(frames)))
             \/ \E text \in PlatformDiagnostics :
                   LET e == RequestDeviceError(text)
                   IN /\ console' = Append(console, error_1(to_string(e)))
                      /\ WebGpuReturns(Err(e))
    /\ UNCHANGED <<children, nextNode, canvas, events>>

\* -------------------------------------------------- new: the second canvas
\* line 35: parent_element.remove_child(&canvas)?
\* (the Err arm is the platform refusing the removal; the children are then
\* left as they were)
RemoveCanvas ==
    /\ pc = "remove_child"
    /\ \/ /\ DomFailure("remove_child", canvas[BROWSER_WEBGPU])
          /\ UNCHANGED children
       \/ /\ children' = remove_child(children, canvas[BROWSER_WEBGPU])
          /\ pc' = "create_canvas_2"
          /\ UNCHANGED result
    /\ UNCHANGED <<nextNode, canvas, locals, inflight, console, returned, events>>

\* lines 36-38: document.create_element("canvas")?.dyn_into::<HtmlCanvasElement>()?
CreateSecondCanvas ==
    /\ pc = "create_canvas_2"
    /\ \/ /\ DomFailure("create_element", 0)
          /\ UNCHANGED <<nextNode, canvas>>
       \/ /\ DomFailure("dyn_into", nextNode)
          /\ nextNode' = nextNode + 1
          /\ UNCHANGED canvas
       \/ /\ canvas' = [canvas EXCEPT ![GL] = nextNode]
          /\ nextNode' = nextNode + 1
          /\ pc' = "append_child_2"
          /\ UNCHANGED result
    /\ UNCHANGED <<children, locals, inflight, console, returned, events>>

\* line 39: parent_element.append_child(&canvas)?
AppendSecondCanvas ==
    /\ pc = "append_child_2"
    /\ \/ /\ DomFailure("append_child", canvas[GL])
          /\ UNCHANGED children
       \/ /\ children' = append_child(children, canvas[GL])
          /\ pc' = "webgl_create_surface"
          /\ UNCHANGED result
    /\ UNCHANGED <<nextNode, canvas, locals, inflight, console, returned, events>>

\* ------------------------------------------------------- with_webgl_backend
\* Mutation of WebGlCreateSurface: the Err arm logs and does not return.
WebGlCreateSurfaceNoReturn ==
    /\ pc = "webgl_create_surface"
    /\ LET instance == Instance(WebGlInstanceDescriptor)
           target == WebGlTarget(canvas)
       IN /\ events' = Append(events,
                 [op |-> "create_surface", backend |-> GL, target |-> target,
                  attached |-> target \in Range(children)])
          /\ \/ /\ locals' = [locals EXCEPT ![GL] =
                       [NoLocals EXCEPT !.instance = instance,
                                        !.surface = Surface(instance, target)]]
                /\ UNCHANGED console
             \/ \E text \in PlatformDiagnostics :
                   /\ console' = Append(console, error_1(to_string(CreateSurfaceError(text))))
                   /\ locals' = [locals EXCEPT ![GL] =
                          [NoLocals EXCEPT !.instance = instance]]
          /\ pc' = "webgl_request_adapter"
    /\ UNCHANGED <<children, nextNode, canvas, inflight, returned, result>>

\* lines 107-123: Instance::new, then instance.create_surface(SurfaceTarget::Canvas(canvas))
WebGlCreateSurface ==
    /\ pc = "webgl_create_surface"
    /\ LET instance == Instance(WebGlInstanceDescriptor)
           target == WebGlTarget(canvas)
       IN /\ events' = Append(events,
                 [op |-> "create_surface", backend |-> GL, target |-> target,
                  attached |-> target \in Range(children)])
          /\ \/ /\ locals' = [locals EXCEPT ![GL] =
                       [NoLocals EXCEPT !.instance = instance,
                                        !.surface = Surface(instance, target)]]
                /\ pc' = "webgl_request_adapter"
                /\ UNCHANGED <<console, returned, result>>
             \/ \E text \in PlatformDiagnostics :
                   LET e == CreateSurfaceError(text)
                   IN /\ console' = Append(console, error_1(to_string(e)))
                      /\ WebGlReturns(Err(e))
    /\ UNCHANGED <<children, nextNode, canvas, inflight>>

\* lines 125-131: instance.request_adapter(&request_adapter_options) is issued
WebGlRequestAdapter ==
    /\ pc = "webgl_request_adapter"
    /\ inflight' = inflight \cup
          {[request |-> "request_adapter", backend |-> GL,
            options |-> RequestAdapterOptions(locals[GL].surface)]}
    /\ events' = Append(events, [op |-> "request_adapter", backend |-> GL])
    /\ pc' = "webgl_await_adapter"
    /\ UNCHANGED <<children, nextNode, canvas, locals, console, returned, result>>

\* lines 131-137: the .await resolves to Some(adapter) or None
WebGlAdapterResolved ==
    /\ pc = "webgl_await_adapter"
    /\ \E req \in inflight :
          /\ req.request = "request_adapter"
          /\ req.backend = GL
          /\ inflight' = inflight \ {req}
          /\ \/ \E limits \in AdapterLimits :
                   /\ locals' = [locals EXCEPT ![GL].adapter =
                          Adapter(locals[GL].instance, req.options, limits)]
                   /\ pc' = "webgl_request_device"
                   /\ UNCHANGED <<console, returned, result>>
             \/ /\ console' = Append(console, error_1(NoAdapterWebGl))
                /\ WebGlReturns(Err(StrError(NoAdapterWebGl)))
    /\ UNCHANGED <<children, nextNode, canvas, events>>

\* lines 139-146: the DeviceDescriptor is built and adapter.request_device is issued
WebGlRequestDevice ==
    /\ pc = "webgl_request_device"
    /\ inflight' = inflight \cup
          {[request |-> "request_device", backend |-> GL,
            descriptor |-> DeviceDescriptor(locals[GL].adapter)]}
    /\ events' = Append(events, [op |-> "request_device", backend |-> GL])
    /\ pc' = "webgl_await_device"
    /\ UNCHANGED <<children, nextNode, canvas, locals, console, returned, result>>

\* lines 146-162: the .await resolves to Ok((device, queue)) or Err(e)
WebGlDeviceResolved ==
    /\ pc = "webgl_await_device"
    /\ \E req \in inflight :
          /\ req.request = "request_device"
          /\ req.backend = GL
          /\ inflight' = inflight \ {req}
          /\ \/ LET adapter == locals[GL].adapter
                    frames == [locals EXCEPT
                                 ![GL].device = Device(adapter, req.descriptor),
                                 ![GL].queue = Queue(adapter, req.descriptor)]
                IN /\ console' = Append(console, log_1("WebGL backend initialized"))
                   /\ WebGlReturns(Ok(WebGlApp(frames)))
             \/ \E text \in PlatformDiagnostics :
                   LET e == RequestDeviceError(text)
                   IN /\ console' = Append(console, error_1(to_string(e)))
                      /\ WebGlReturns(Err(e))
    /\ UNCHANGED <<children, nextNode, canvas, events>>

\* ------------------------------------------------------------------- Next
Next ==
    \/ CreateCanvas
    \/ AppendCanvas
    \/ WebGpuCreateSurface
    \/ WebGpuRequestAdapter
    \/ WebGpuAdapterResolved
    \/ WebGpuRequestDevice
    \/ WebGpuDeviceResolved
    \/ RemoveCanvas
    \/ CreateSecondCanvas
    \/ AppendSecondCanvas
    \/ WebGlCreateSurface
    \/ WebGlRequestAdapter
    \/ WebGlAdapterResolved
    \/ WebGlRequestDevice
    \/ WebGlDeviceResolved

Spec == Init /\ [][Next]_vars

\* The task running new is polled until it completes, and every platform
\* request that was issued resolves: no enabled step is postponed forever.
FairSpec == Init /\ [][Next]_vars /\ WF_vars(Next)

\* ============================================================ properties
\* The positions of the events (op, backend) in the history.
EventsOf(op, backend) ==
    {i \in 1..Len(events) : events[i].op = op /\ events[i].backend = backend}

\* How often a backend function was entered: each entry makes one
\* create_surface call, unconditionally.
Attempts(backend) == Cardinality(EventsOf("create_surface", backend))

\* The canvases of new that are children of the parent element.
AttachedCanvases == Range(children) \cap ({canvas[b] : b \in Backends} \ {0})

PrimaryFailed == returned[BROWSER_WEBGPU].tag = "Err"
PrimarySucceeded == returned[BROWSER_WEBGPU].tag = "Ok"
SecondaryFailed == returned[GL].tag = "Err"
SecondarySucceeded == returned[GL].tag = "Ok"

DomFailed == result.tag = "Err" /\ result.error.js = "exception"

\* The WebGL attempt, when made, is made on a canvas created after the
\* primary's, with another identity.
SecondaryTargetFresh ==
    \A i \in EventsOf("create_surface", GL) :
        /\ canvas[BROWSER_WEBGPU] > 0
        /\ events[i].target = canvas[GL]
        /\ events[i].target > canvas[BROWSER_WEBGPU]
        /\ events[i].target # canvas[BROWSER_WEBGPU]

\* C1 (as stated): whenever new has returned after a failed WebGPU attempt,
\* exactly one WebGL attempt was made, on a fresh canvas other than the
\* primary's.
C1_ExactlyOneSecondary ==
    (pc = "done" /\ PrimaryFailed) => (Attempts(GL) = 1 /\ SecondaryTargetFresh)

\* C1 (amended): after a failed WebGPU attempt at most one WebGL attempt is
\* ever made; when new has returned, exactly one was made unless a DOM call
\* between the attempts (remove_child, create_element, the cast, append_child)
\* failed, in which case none was made; the attempt's canvas is fresh and
\* differs from the primary's.
C1_OneSecondaryUnlessDomFails ==
    /\ Attempts(GL) <= 1
    /\ SecondaryTargetFresh
    /\ (pc = "done" /\ PrimaryFailed /\ ~DomFailed) => Attempts(GL) = 1
    /\ (pc = "done" /\ PrimaryFailed /\ DomFailed) => Attempts(GL) = 0

\* The WebGPU attempt failed at its device request, and the WebGL attempt ran.
C1_Witness ==
    /\ pc = "done"
    /\ PrimaryFailed
    /\ returned[BROWSER_WEBGPU].error.kind = "RequestDeviceError"
    /\ Attempts(GL) = 1
    /\ canvas[GL] # canvas[BROWSER_WEBGPU]

\* C2: when the WebGPU attempt succeeds, new returns its context at once: no
\* WebGL step is ever made, no second element is created, and the parent
\* holds exactly the one canvas of the primary attempt.
C2_NoSecondaryAfterSuccess ==
    PrimarySucceeded =>
        /\ pc = "done"
        /\ result = Ok(returned[BROWSER_WEBGPU].value)
        /\ \A i \in 1..Len(events) : events[i].backend = BROWSER_WEBGPU
        /\ returned[GL] = NotReturned
        /\ canvas[GL] = 0
        /\ nextNode = canvas[BROWSER_WEBGPU] + 1
        /\ AttachedCanvases = {canvas[BROWSER_WEBGPU]}
        /\ Len(children) = canvas[BROWSER_WEBGPU]

C2_Witness ==
    /\ pc = "done"
    /\ PrimarySucceeded
    /\ result.tag = "Ok"
    /\ AttachedCanvases = {canvas[BROWSER_WEBGPU]}

\* A context whose four handles were obtained in one attempt on backend b:
\* the surface is of the context's instance and of that attempt's canvas, the
\* adapter was requested of that instance for that surface, and the device
\* and queue were requested of that adapter.
SameAttempt(app, b) ==
    /\ app.instance = [tag |-> "Instance", backends |-> b]
    /\ app.surface.tag = "Surface"
    /\ app.surface.instance = app.instance
    /\ app.surface.target = canvas[b]
    /\ app.adapter.tag = "Adapter"
    /\ app.adapter.instance = app.instance
    /\ app.adapter.compatible_surface = app.surface
    /\ app.device.tag = "Device"
    /\ app.device.adapter = app.adapter
    /\ app.queue.tag = "Queue"
    /\ app.queue.adapter = app.adapter

\* C3: a context that a backend function or new returns has its surface,
\* adapter, device and queue, all obtained in the same attempt; nothing else
\* is ever returned as a context.
C3_ContextFromOneAttempt ==
    /\ \A b \in Backends : returned[b].tag = "Ok" => SameAttempt(returned[b].value, b)
    /\ result.tag = "Ok" =>
          /\ \E b \in Backends : returned[b] = result
          /\ \E b \in Backends : SameAttempt(result.value, b)
    /\ result.tag \in {"NotReturned", "Ok", "Err"}

\* new returned the context of the WebGL attempt after the WebGPU attempt
\* had obtained an adapter of its own.
C3_Witness ==
    /\ result.tag = "Ok"
    /\ SameAttempt(result.value, GL)
    /\ PrimaryFailed
    /\ EventsOf("request_device", BROWSER_WEBGPU) # {}

\* The device requests in flight, each with the limits of the adapter it is
\* made to.
DeviceRequests == {req \in inflight : req.request = "request_device"}
RequiredLimits(req) == req.descriptor.required_limits
AdapterLimitsOf(req) == locals[req.backend].adapter.limits

\* C4 (as stated): every limit of every device request is at most the
\* adapter's.
C4_RequestWithinAdapter ==
    \A req \in DeviceRequests : \A k \in LimitKeys :
        RequiredLimits(req)[k] <= AdapterLimitsOf(req)[k]

\* C4 (amended): in both attempts the three texture dimensions are requested
\* at the adapter's value, every other limit at the WebGL2 baseline value
\* whatever the adapter reports; so the request is within the adapter's
\* limits exactly when the adapter meets the baseline on the other keys.
C4_ResolutionFromAdapter ==
    \A req \in DeviceRequests :
        /\ \A k \in ResolutionKeys : RequiredLimits(req)[k] = AdapterLimitsOf(req)[k]
        /\ RequiredLimits(req)["max_bind_groups"] = 4
        /\ RequiredLimits(req)["max_inter_stage_shader_components"] = 31
        /\ (\A k \in LimitKeys : RequiredLimits(req)[k] <= AdapterLimitsOf(req)[k])
              <=> (/\ AdapterLimitsOf(req)["max_bind_groups"] >= 4
                   /\ AdapterLimitsOf(req)["max_inter_stage_shader_components"] >= 31)

\* A WebGL device request to an adapter whose 2d texture dimension is below
\* the baseline, and one of whose other limits is too.
C4_Witness ==
    \E req \in DeviceRequests :
        /\ req.backend = GL
        /\ AdapterLimitsOf(req)["max_texture_dimension_2d"] < 2048
        /\ RequiredLimits(req)["max_texture_dimension_2d"] < 2048
        /\ AdapterLimitsOf(req)["max_bind_groups"] < 4

\* C5: when both attempts failed, new returns the text of the error the
\* WebGL attempt returned, whatever the WebGPU attempt's error was; when the
\* WebGL attempt found no adapter, that text names the WebGL backend.
C5_SecondaryReasonReturned ==
    (PrimaryFailed /\ SecondaryFailed) =>
        /\ pc = "done"
        /\ result = [tag |-> "Err",
                     error |-> [js |-> "string", value |-> returned[GL].error.text]]
        /\ returned[GL].error.kind = "StrError" =>
              result.error.value = "No suitable adapter found for WebGL backend"
        /\ returned[GL].error.kind # "StrError" =>
              result.error.value \in PlatformDiagnostics

\* Both adapter requests resolved to None.
C5_Witness ==
    /\ pc = "done"
    /\ PrimaryFailed /\ returned[BROWSER_WEBGPU].error.kind = "StrError"
    /\ SecondaryFailed /\ returned[GL].error.kind = "StrError"
    /\ result.tag = "Err"
    /\ result.error.value = "No suitable adapter found for WebGL backend"

\* The backend a context is tagged with: the backends of the instance it
\* owns (WgpuApp has no field of its own for it).
BackendOf(app) == app.instance.backends

\* C6: the context new returns is tagged with the WebGPU backend exactly when
\* the WebGPU attempt succeeded, and with the GL backend exactly when the
\* WebGPU attempt failed and the WebGL attempt succeeded; and new returns a
\* context in exactly these two cases.
C6_TaggedWithWinningBackend ==
    /\ result.tag = "Ok" =>
          /\ BackendOf(result.value) = BROWSER_WEBGPU <=> PrimarySucceeded
          /\ BackendOf(result.value) = GL <=> (PrimaryFailed /\ SecondarySucceeded)
          /\ result.value.adapter.instance.backends = BackendOf(result.value)
          /\ result.value.surface.instance.backends = BackendOf(result.value)
    /\ PrimarySucceeded => result.tag = "Ok"
    /\ (PrimaryFailed /\ SecondarySucceeded) => result.tag = "Ok"

\* The WebGPU surface could not be created, its canvas was removed, a new
\* canvas was attached and the WebGL attempt succeeded.
C6_Witness ==
    /\ PrimaryFailed
    /\ returned[BROWSER_WEBGPU].error.kind = "CreateSurfaceError"
    /\ canvas[BROWSER_WEBGPU] \notin Range(children)
    /\ canvas[GL] \in Range(children)
    /\ result.tag = "Ok"
    /\ BackendOf(result.value) = GL

SecondaryPositions ==
    {"create_canvas_2", "append_child_2", "webgl_create_surface", "webgl_request_adapter",
     "webgl_await_adapter", "webgl_request_device", "webgl_await_device"}

\* Something of the WebGL attempt exists or has happened.
SecondaryBegun ==
    \/ pc \in SecondaryPositions
    \/ canvas[GL] # 0
    \/ locals[GL] # NoLocals
    \/ returned[GL] # NotReturned
    \/ \E i \in 1..Len(events) : events[i].backend = GL
    \/ \E req \in inflight : req.backend = GL

\* C7: at any time at most one canvas of new is attached to the parent and
\* at most one platform request is in flight; and nothing of the WebGL
\* attempt exists before the WebGPU attempt has returned its error and holds
\* no handle or request any more.
C7_StrictlySequential ==
    /\ Cardinality(AttachedCanvases) <= 1
    /\ Cardinality(inflight) <= 1
    /\ SecondaryBegun =>
          /\ PrimaryFailed
          /\ locals[BROWSER_WEBGPU] = NoLocals
          /\ \A req \in inflight : req.backend = GL

\* The WebGL device request is in flight after the WebGPU attempt failed.
C7_Witness ==
    /\ pc = "webgl_await_device"
    /\ Cardinality(inflight) = 1
    /\ AttachedCanvases = {canvas[GL]}
    /\ PrimaryFailed

\* C8: a failed WebGPU attempt holds no handle once it has returned; its
\* canvas is detached before the second canvas is created, its handles are
\* dropped before the WebGL surface is created, and its canvas is never the
\* target of a WebGL surface.
C8_PrimaryReleasedFirst ==
    /\ PrimaryFailed => locals[BROWSER_WEBGPU] = NoLocals
    /\ (pc = "create_canvas_2" \/ canvas[GL] # 0) =>
          canvas[BROWSER_WEBGPU] \notin Range(children)
    /\ (pc = "webgl_create_surface" \/ Attempts(GL) > 0) =>
          /\ locals[BROWSER_WEBGPU] = NoLocals
          /\ \A req \in inflight : req.backend # BROWSER_WEBGPU
    /\ \A i \in EventsOf("create_surface", GL) :
          events[i].target # canvas[BROWSER_WEBGPU]
    /\ locals[GL].surface # None => locals[GL].surface.target # canvas[BROWSER_WEBGPU]

\* The WebGL surface exists after a WebGPU attempt that had held an
\* instance, a surface and an adapter.
C8_Witness ==
    /\ pc = "webgl_request_adapter"
    /\ locals[GL].surface # None
    /\ PrimaryFailed
    /\ returned[BROWSER_WEBGPU].error.kind = "RequestDeviceError"
    /\ canvas[BROWSER_WEBGPU] \notin Range(children)

\* C9: every create_surface call, of either attempt, was made on a canvas
\* that was a child of the parent element when the call was made.
C9_SurfaceOnAttachedCanvas ==
    \A b \in Backends : \A i \in EventsOf("create_surface", b) :
        /\ events[i].attached
        /\ events[i].target = canvas[b]
        /\ events[i].target > 0

\* Both attempts have created (or tried to create) their surface.
C9_Witness ==
    /\ Attempts(BROWSER_WEBGPU) = 1
    /\ Attempts(GL) = 1
    /\ \A i \in 1..Len(events) : events[i].op = "create_surface" => events[i].attached

NegotiationSteps == {"create_surface", "request_adapter", "request_device"}

\* C10: each of the three steps is invoked at most once per backend, so at
\* most two attempts and six step invocations are made in a run.
C10_NoRetryWithinBackend ==
    /\ \A b \in Backends : \A op \in NegotiationSteps :
          Cardinality(EventsOf(op, b)) <= 1
    /\ Attempts(BROWSER_WEBGPU) + Attempts(GL) <= 2
    /\ Len(events) <= 6

\* Both attempts ran all three steps and the last one failed.
C10_Witness ==
    /\ pc = "done"
    /\ Len(events) = 6
    /\ PrimaryFailed
    /\ SecondaryFailed

\* The positions of the error events in the console.
ErrorLogs == {i \in 1..Len(console) : console[i].level = "error"}

\* The error event carrying the reason of the error e.
LoggedReason(e) == \E i \in ErrorLogs : console[i].msg = e.text

FailedAttempts == {b \in Backends : returned[b].tag = "Err"}

\* C11: an attempt that has returned an error has written an error event
\* with that error's text, one event per failed attempt and none otherwise;
\* so the WebGPU attempt's reason is the first event of the console before
\* anything of the WebGL attempt happens.
C11_FailureLoggedBeforeReturn ==
    /\ \A b \in FailedAttempts : LoggedReason(returned[b].error)
    /\ Cardinality(ErrorLogs) = Cardinality(FailedAttempts)
    /\ (pc = "remove_child" \/ SecondaryBegun) =>
          /\ PrimaryFailed
          /\ Len(console) >= 1
          /\ console[1] = [level |-> "error", msg |-> returned[BROWSER_WEBGPU].error.text]
    /\ SecondaryFailed =>
          console[Len(console)] = [level |-> "error", msg |-> returned[GL].error.text]

\* The WebGPU attempt failed for want of an adapter and the WebGL attempt at
\* its device request; both reasons are in the console, in that order.
C11_Witness ==
    /\ PrimaryFailed /\ returned[BROWSER_WEBGPU].error.kind = "StrError"
    /\ SecondaryFailed /\ returned[GL].error.kind = "RequestDeviceError"
    /\ Len(console) = 2
    /\ console[1].msg = "No suitable adapter found for WebGPU backend"
    /\ console[2].msg \in PlatformDiagnostics

\* The three kinds of negotiation error: SurfaceCreationFailed,
\* NoCompatibleAdapter, DeviceRequestFailed.
ErrorKinds == {"CreateSurfaceError", "StrError", "RequestDeviceError"}

\* The backend an error value names, if it names one.
NamedBackend(e) ==
    IF e.text = "No suitable adapter found for WebGPU backend" THEN BROWSER_WEBGPU
    ELSE IF e.text = "No suitable adapter found for WebGL backend" THEN GL
    ELSE "unnamed"

\* The kind of error an attempt on backend b returns is the kind of the step
\* it stopped at.
KindOfFailedStep(b) ==
    IF EventsOf("request_device", b) # {} THEN "RequestDeviceError"
    ELSE IF EventsOf("request_adapter", b) # {} THEN "StrError"
    ELSE "CreateSurfaceError"

\* C12 (as stated): the error an attempt returns is of one of the three kinds
\* and names the backend of the attempt.
C12_ErrorsTaggedWithBackend ==
    \A b \in FailedAttempts :
        /\ returned[b].error.kind \in ErrorKinds
        /\ NamedBackend(returned[b].error) = b

\* C12 (amended): the error an attempt returns is of one of the three kinds,
\* the kind of the step that failed; the no-adapter error names the backend
\* of its attempt; a surface-creation or device-request error is the
\* platform's error forwarded as it is, and names no backend.
C12_OnlyNoAdapterNamesBackend ==
    \A b \in FailedAttempts :
        /\ returned[b].error.kind \in ErrorKinds
        /\ returned[b].error.kind = KindOfFailedStep(b)
        /\ returned[b].error.kind = "StrError" => NamedBackend(returned[b].error) = b
        /\ returned[b].error.kind # "StrError" =>
              /\ returned[b].error.text \in PlatformDiagnostics
              /\ NamedBackend(returned[b].error) = "unnamed"

\* The WebGPU attempt returned the platform's surface-creation error, which
\* names no backend; the WebGL attempt found no adapter and names WebGL.
C12_Witness ==
    /\ PrimaryFailed
    /\ returned[BROWSER_WEBGPU].error.kind = "CreateSurfaceError"
    /\ NamedBackend(returned[BROWSER_WEBGPU].error) = "unnamed"
    /\ SecondaryFailed
    /\ returned[GL].error.kind = "StrError"
    /\ NamedBackend(returned[GL].error) = GL

\* The success event of each backend function.
SuccessLog(b) ==
    IF b = BROWSER_WEBGPU
    THEN [level |-> "log", msg |-> "WebGPU backend initialized"]
    ELSE [level |-> "log", msg |-> "WebGL backend initialized"]

\* The steps the attempt on backend b has invoked, in order.
StepsOf(b) ==
    LET idx == {i \in 1..Len(events) : events[i].backend = b}
        f[n \in 0..Len(events)] ==
            IF n = 0 THEN <<>>
            ELSE IF n \in idx THEN Append(f[n - 1], events[n].op) ELSE f[n - 1]
    IN f[Len(events)]

\* C13: the steps an attempt has invoked are a prefix of surface creation,
\* adapter request, device request; the adapter request has been issued only
\* with the attempt's surface in hand and the device request only with its
\* adapter; an attempt that failed at a step invoked no later step and wrote
\* no success event, which is written exactly by an attempt that succeeded.
C13_OrderedAndShortCircuit ==
    \A b \in Backends :
        /\ StepsOf(b) \in {<<>>, <<"create_surface">>,
                           <<"create_surface", "request_adapter">>,
                           <<"create_surface", "request_adapter", "request_device">>}
        /\ (Len(StepsOf(b)) >= 2 /\ returned[b] = NotReturned) =>
              locals[b].surface.tag = "Surface"
        /\ (Len(StepsOf(b)) >= 3 /\ returned[b] = NotReturned) =>
              locals[b].adapter.tag = "Adapter"
        /\ returned[b].tag = "Err" =>
              /\ returned[b].error.kind = "CreateSurfaceError" => Len(StepsOf(b)) = 1
              /\ returned[b].error.kind = "StrError" => Len(StepsOf(b)) = 2
              /\ returned[b].error.kind = "RequestDeviceError" => Len(StepsOf(b)) = 3
        /\ (SuccessLog(b) \in Range(console)) <=> returned[b].tag = "Ok"
        /\ returned[b].tag = "Ok" => Len(StepsOf(b)) = 3

\* The WebGPU attempt stopped at surface creation, the WebGL attempt at its
\* adapter request.
C13_Witness ==
    /\ PrimaryFailed /\ StepsOf(BROWSER_WEBGPU) = <<"create_surface">>
    /\ SecondaryFailed /\ StepsOf(GL) = <<"create_surface", "request_adapter">>
    /\ \A b \in Backends : SuccessLog(b) \notin Range(console)

\* new has returned: a context or an error.
Terminal == pc = "done" /\ result.tag \in {"Ok", "Err"}

\* C14: when every step that can be taken is eventually taken, new reaches a
\* terminal state; it has returned exactly when it is there, it returns a
\* context exactly when one of the attempts produced one and an error
\* otherwise, and what it returned never changes afterwards.
C14_ReachesOneTerminal ==
    /\ <>Terminal
    /\ [](result.tag # "NotReturned" <=> pc = "done")
    /\ [](pc = "done" =>
             /\ Terminal
             /\ result.tag = "Ok" <=> (\E b \in Backends : returned[b].tag = "Ok")
             /\ result.tag = "Err" <=> (\A b \in Backends : returned[b].tag # "Ok"))
    /\ [][pc = "done" => UNCHANGED vars]_vars

\* new returned the context of the WebGL attempt: it left TryPrimary and
\* TrySecondary.
C14_Witness ==
    /\ Terminal
    /\ result.tag = "Ok"
    /\ PrimaryFailed
    /\ SecondarySucceeded

DomOpsOfFirstCanvas == {"create_element", "dyn_into", "append_child"}
DomOpsOfSecondCanvas == {"remove_child", "create_element", "dyn_into", "append_child"}

\* C15: when new has returned the error of a DOM call it is at its end with
\* no request in flight and no handle held, and the WebGL attempt was never
\* entered; a failure around the first canvas comes before any platform call,
\* a failure of remove_child or around the second canvas comes after the
\* WebGPU attempt failed; no DOM error is returned after a successful attempt.
C15_DomFailureEndsNew ==
    DomFailed =>
        /\ pc = "done"
        /\ inflight = {}
        /\ \A b \in Backends : locals[b] = NoLocals
        /\ returned[GL] = NotReturned
        /\ Attempts(GL) = 0
        /\ ~PrimarySucceeded
        /\ returned[BROWSER_WEBGPU] = NotReturned =>
              /\ events = <<>>
              /\ console = <<>>
              /\ result.error.op \in DomOpsOfFirstCanvas
        /\ PrimaryFailed =>
              /\ Attempts(BROWSER_WEBGPU) = 1
              /\ result.error.op \in DomOpsOfSecondCanvas
        /\ result.error.op = "remove_child" =>
              /\ PrimaryFailed
              /\ result.error.node = canvas[BROWSER_WEBGPU]
              /\ canvas[GL] = 0

\* remove_child of the primary canvas failed after the WebGPU attempt failed.
C15_Witness ==
    /\ DomFailed
    /\ result.error.op = "remove_child"
    /\ PrimaryFailed
    /\ Attempts(GL) = 0

\* C16: when new has returned the error of the failed WebGL attempt, the
\* second canvas is the last child of the parent and the first canvas is not
\* a child: of the elements new created exactly one is left in the document.
C16_SecondaryCanvasLeftAttached ==
    (pc = "done" /\ SecondaryFailed) =>
        /\ result.tag = "Err"
        /\ result.error.js = "string"
        /\ AttachedCanvases = {canvas[GL]}
        /\ canvas[BROWSER_WEBGPU] \notin Range(children)
        /\ children[Len(children)] = canvas[GL]
        /\ Len(children) = canvas[BROWSER_WEBGPU]

\* new returned the WebGL attempt's device-request error with the parent
\* holding the second canvas.
C16_Witness ==
    /\ pc = "done"
    /\ SecondaryFailed
    /\ returned[GL].error.kind = "RequestDeviceError"
    /\ canvas[GL] \in Range(children)
    /\ canvas[BROWSER_WEBGPU] \notin Range(children)

====
